---------------------------- MODULE Spec2Model ----------------------------
(***************************************************************************)
(* Model of the authentication core of PackingWebsite:                     *)
(*   src/lib/auth_manager.py     credentials, sessions, audit log (SQLite) *)
(*   src/lib/auth_middleware.py  bearer-token dependency                   *)
(*   src/main.py                 HTTP handlers that call into the core     *)
(*                                                                         *)
(* Strings.  A store id is a string of one to four digits (the path regex  *)
(* of main.py); it is modelled by the number it spells.  A session token   *)
(* is a 43-character url-safe string; it is modelled by a number above     *)
(* every store id, so a token and a store id are never equal.  A password  *)
(* is written as its text, a sequence of character codes, after a run of   *)
(* `pad` letters "a": [pad |-> 2, text |-> <<98>>] is "aab".               *)
(*                                                                         *)
(* Time.  The clock counts ticks.  SQLite's CURRENT_TIMESTAMP is UTC cut   *)
(* to whole seconds; Python's datetime.now() is local time with its        *)
(* fraction of a second.  Both are stored as text and compared as text,    *)
(* which orders them as the numbers of ticks they stand for.  The scale is *)
(* reduced: a second lasts TicksPerSecond ticks and an hour lasts          *)
(* SecondsPerHour seconds.                                                 *)
(***************************************************************************)
EXTENDS Integers, Sequences, FiniteSets, TLC

\* ------------------------------------------------------------- bounds
TicksPerSecond == 3
SecondsPerHour == 1
MaxClock == 5
MaxAudit == 3
MaxTokens == 2
MaxLen == 3

HourTicks == SecondsPerHour * TicksPerSecond

\* ------------------------------------------------------------ strings
\* Store ids "2" and "10": as numbers 2 comes first, as text "10" does.
StoreIds == {2, 10}

\* The first number that no store id of at most four digits spells.
TokenBase == 10000

\* What a client sends as a bearer token without having been issued it.
BogusToken == TokenBase

\* bcrypt reads at most this many bytes of a password.
BcryptMaxBytes == 72

\* None, where a store id or a token is expected (no store id spells 0).
None == 0

\* SQL NULL in a text column.
NULL == ""

Min(a, b) == IF a < b THEN a ELSE b

\* Character codes: "-" 45, "1" 49, "A" 65, "B" 66, "a" 97, "b" 98, "c" 99,
\* "\u00c9" 201 (E with acute), "\u00e9" 233 (e with acute), "\u0130" 304
\* (capital I with dot above), "\u0307" 775 (combining dot above) and
\* "\u212a" 8490 (the Kelvin sign).
Text(codes) == [pad |-> 0, text |-> codes]

\* 72 letters "a" and one more letter.
LongPassword(c) == [pad |-> BcryptMaxBytes, text |-> <<c>>]

\* "B-A-B", "bab", "1", and two passwords of 73 letters that differ in the last.
Passwords == {Text(<<66, 45, 65, 45, 66>>), Text(<<98, 97, 98>>), Text(<<49>>),
              LongPassword(98), LongPassword(99)}

\* What xkcdpass prints for three words joined by "-": "b-a-b".
Passphrases == {Text(<<98, 45, 97, 45, 98>>)}

\* Session lifetimes (hours) passed to create_session by a direct caller.
TtlHours == {1, 2}

\* The lifetimes the login handler passes: 24 hours, or 30 days with remember_me.
LoginHours == 24
RememberHours == 30 * 24

\* The limits a caller of get_audit_log passes; the command line passes any
\* integer of its --limit option.
Limits == {-1, 0, 1, 2}

\* The characters of the strings normalize_password is applied to: "-", "1",
\* "A", "a", "\u00c9", "\u00e9", "\u0130" and the Kelvin sign.
Alphabet == {45, 49, 65, 97, 201, 233, 304, 8490}

\* Every string of at most MaxLen characters of the alphabet.
Strings == {Text(codes) : codes \in UNION {[1..n -> Alphabet] : n \in 0..MaxLen}}

\* The offsets of local time from UTC, in hours, the process may run under.
TzHours == {-2, 0}

\* -------------------------------------------------------------- state
VARIABLES
    clock,          \* UTC time in ticks
    tz,             \* offset of the process's local time from UTC, in ticks
    bcryptStrict,   \* the installed bcrypt rejects passwords over 72 bytes
    callers,        \* the calls of concurrent processes, statement by statement
    xkcdpass,       \* what running the xkcdpass program does: "ok", "fails"
                    \* (exit status not 0) or "missing" (no such program)
    store_auth,     \* table store_auth: a set of rows, store_id is the key
    sessions,       \* table sessions: a set of rows, token is the key
    audit_log,      \* table audit_log: rows in id order
    nextToken,      \* how many tokens secrets.token_urlsafe has returned
    yaml,           \* stores/store<id>.yml and the floorplan file of each store
    last,           \* the last call or request and its outcome
    issuedBy,       \* history: the token and the store of every create_session
    removed,        \* history: tokens whose session row has been deleted
    revoked,        \* history: tokens delete_session has returned on
    secret          \* history: store_id -> the normalized plaintext of the
                    \*          last committed create_store_auth, if any (a set)

vars == <<clock, tz, bcryptStrict, xkcdpass, callers, store_auth, sessions, audit_log, nextToken,
          yaml, last, issuedBy, removed, revoked, secret>>

\* What a call made on its own leaves alone: the environment of the process,
\* and the calls other processes have under way.
env == <<tz, bcryptStrict, xkcdpass, callers>>
history == <<issuedBy, removed, revoked, secret>>

\* The database as one value: what a call reads, and what it commits.
DB == [store_auth |-> store_auth, sessions |-> sessions, audit_log |-> audit_log]

Commit(D) ==
    /\ store_auth' = D.store_auth
    /\ sessions' = D.sessions
    /\ audit_log' = D.audit_log

\* The outcome of a call: the database it leaves, what it returned (ret: a
\* store id, a token or None; ok: a boolean result) and the exception it
\* ended with ("" when it returned).
Outcome(D, ret, ok, raised) == [db |-> D, ret |-> ret, ok |-> ok, raised |-> raised]

\* What `last` records of a call or request: its arguments (store, token,
\* password, limit, where it has them), what it returned (ret, ok, the string
\* text or the list rows) and the exception it ended with.
Call(op, store, token, out) ==
    [op |-> op, store |-> store, token |-> token, password |-> Text(<<>>),
     limit |-> 0, ret |-> out.ret, ok |-> out.ok, text |-> Text(<<>>),
     rows |-> <<>>, raised |-> out.raised]

\* --------------------------------------------------------------- time
\* SQLite's CURRENT_TIMESTAMP: UTC, cut to the second ("YYYY-MM-DD HH:MM:SS").
CURRENT_TIMESTAMP == (clock \div TicksPerSecond) * TicksPerSecond

\* datetime.now(): naive local time, with microseconds.
datetime_now == clock + tz

timedelta(hours) == hours * HourTicks

\* ---------------------------------------------------------- passwords
\* The lowercase of a character whose lowercase is one character: "A".."Z",
\* the capitals of Latin-1, and the Kelvin sign, whose lowercase is "k".
lower(c) ==
    IF c >= 65 /\ c <= 90 THEN c + 32
    ELSE IF c >= 192 /\ c <= 222 /\ c # 215 THEN c + 32
    ELSE IF c = 8490 THEN 107
    ELSE c

\* str.lower(): character by character; the lowercase of "\u0130" is the two
\* characters "i" and "\u0307".
RECURSIVE str_lower(_)
str_lower(text) ==
    IF text = <<>> THEN <<>>
    ELSE (IF Head(text) = 304 THEN <<105, 775>> ELSE <<lower(Head(text))>>)
         \o str_lower(Tail(text))

IsLowerLetter(c) == c >= 97 /\ c <= 122

\* A normalization that keeps a to z first and lowercases afterwards.
normalize_password_filters_first(password) ==
    [pad |-> password.pad,
     text |-> str_lower(SelectSeq(password.text, IsLowerLetter))]

\* The letters of the pad are lowercase already and are kept.
normalize_password(password) ==
    [pad |-> password.pad,
     text |-> SelectSeq(str_lower(password.text), IsLowerLetter)]

Length(pw) == pw.pad + Len(pw.text)

\* The first n characters of a password.
Prefix(pw, n) ==
    IF pw.pad >= n
    THEN [pad |-> n, text |-> <<>>]
    ELSE [pad |-> pw.pad, text |-> SubSeq(pw.text, 1, Min(Len(pw.text), n - pw.pad))]

\* bcrypt reads the first 72 bytes of the password.  The salt is carried in
\* the hash and plays no part in whether checkpw accepts; it is left out.
hashpw(pw) == [key |-> Prefix(pw, BcryptMaxBytes)]

checkpw(pw, hashed) == hashpw(pw) = hashed

\* bcrypt 5 raises ValueError for a password over 72 bytes; earlier versions cut it.
bcrypt_raises(pw) == bcryptStrict /\ Length(pw) > BcryptMaxBytes

\* ---------------------------------------------------------- audit log
\* A log that keeps one entry, the latest, for each store and action.
audit_insert_replaces(D, store_id, action, details) ==
    LET Others(e) == ~(e.store_id = store_id /\ e.action = action)
    IN  [D EXCEPT !.audit_log = Append(SelectSeq(@, Others),
            [id |-> Len(@) + 1, store_id |-> store_id, action |-> action,
             timestamp |-> CURRENT_TIMESTAMP, details |-> details])]

\* Entry ids counted for each store apart.
audit_insert_id_per_store(D, store_id, action, details) ==
    LET Mine(e) == e.store_id = store_id
    IN  [D EXCEPT !.audit_log = Append(@,
            [id |-> Len(SelectSeq(@, Mine)) + 1, store_id |-> store_id,
             action |-> action, timestamp |-> CURRENT_TIMESTAMP,
             details |-> details])]

audit_insert(D, store_id, action, details) ==
    [D EXCEPT !.audit_log = Append(@,
        [id |-> Len(@) + 1, store_id |-> store_id, action |-> action,
         timestamp |-> CURRENT_TIMESTAMP, details |-> details])]

\* json.dumps({"success": is_valid})
json_dumps_success(is_valid) ==
    IF is_valid THEN "{\"success\": true}" ELSE "{\"success\": false}"

\* -------------------------------------------------------- credentials
store_auth_rows(D, store_id) == {r \in D.store_auth : r.store_id = store_id}

\* An existence check that forgets its WHERE clause.
hasAuth_any_store(D, store_id) == D.store_auth # {}

hasAuth(D, store_id) == store_auth_rows(D, store_id) # {}

\* An update written as INSERT OR REPLACE: the row's created_at starts over.
create_store_auth_replaces_row(D, store_id, password) ==
    LET normalized == normalize_password(password)
        existing == {r \in D.store_auth : r.store_id = store_id}
        replaced == [D EXCEPT !.store_auth = (@ \ existing) \cup
                        {[store_id |-> store_id,
                          password_hash |-> hashpw(normalized),
                          created_at |-> CURRENT_TIMESTAMP,
                          updated_at |-> CURRENT_TIMESTAMP]}]
    IN  IF bcrypt_raises(normalized)
        THEN Outcome(D, None, FALSE, "ValueError")
        ELSE Outcome(audit_insert(replaced, store_id,
                                  IF existing # {} THEN "password_updated"
                                  ELSE "store_created", NULL),
                     None, TRUE, "")

\* A rotation that also ends the sessions of the store.
create_store_auth_revokes_sessions(D, store_id, password) ==
    LET normalized == normalize_password(password)
        password_hash == hashpw(normalized)
        existing == {r \in D.store_auth : r.store_id = store_id}
        updated == [D EXCEPT !.store_auth = (@ \ existing) \cup
                        {[r EXCEPT !.password_hash = password_hash,
                                   !.updated_at = CURRENT_TIMESTAMP] : r \in existing},
                             !.sessions = {r \in @ : r.store_id # store_id}]
        inserted == [D EXCEPT !.store_auth = @ \cup
                        {[store_id |-> store_id,
                          password_hash |-> password_hash,
                          created_at |-> CURRENT_TIMESTAMP,
                          updated_at |-> CURRENT_TIMESTAMP]}]
    IN  IF bcrypt_raises(normalized)
        THEN Outcome(D, None, FALSE, "ValueError")
        ELSE IF existing # {}
        THEN Outcome(audit_insert(updated, store_id, "password_updated", NULL),
                     None, TRUE, "")
        ELSE Outcome(audit_insert(inserted, store_id, "store_created", NULL),
                     None, TRUE, "")

create_store_auth(D, store_id, password) ==
    LET normalized == normalize_password(password)
        password_hash == hashpw(normalized)
        existing == store_auth_rows(D, store_id)
        updated == [D EXCEPT !.store_auth = (@ \ existing) \cup
                        {[r EXCEPT !.password_hash = password_hash,
                                   !.updated_at = CURRENT_TIMESTAMP] : r \in existing}]
        inserted == [D EXCEPT !.store_auth = @ \cup
                        {[store_id |-> store_id,
                          password_hash |-> password_hash,
                          created_at |-> CURRENT_TIMESTAMP,
                          updated_at |-> CURRENT_TIMESTAMP]}]
    IN  IF bcrypt_raises(normalized)
        THEN Outcome(D, None, FALSE, "ValueError")
        ELSE IF existing # {}
        THEN Outcome(audit_insert(updated, store_id, "password_updated", NULL),
                     None, TRUE, "")
        ELSE Outcome(audit_insert(inserted, store_id, "store_created", NULL),
                     None, TRUE, "")

\* A verification that logs only the attempts it accepts.
verify_store_password_logs_successes(D, store_id, password) ==
    LET result == {r \in D.store_auth : r.store_id = store_id}
        normalized == normalize_password(password)
        is_valid == \E r \in result : checkpw(normalized, r.password_hash)
    IN  IF result = {}
        THEN Outcome(D, None, FALSE, "")
        ELSE IF bcrypt_raises(normalized)
        THEN Outcome(D, None, FALSE, "ValueError")
        ELSE IF is_valid
        THEN Outcome(audit_insert(D, store_id, "login_attempt",
                                  json_dumps_success(is_valid)),
                     None, is_valid, "")
        ELSE Outcome(D, None, is_valid, "")

\* A verification that logs the hash it compared with.
verify_store_password_logs_hash(D, store_id, password) ==
    LET result == {r \in D.store_auth : r.store_id = store_id}
        normalized == normalize_password(password)
        is_valid == \E r \in result : checkpw(normalized, r.password_hash)
    IN  IF result = {}
        THEN Outcome(D, None, FALSE, "")
        ELSE IF bcrypt_raises(normalized)
        THEN Outcome(D, None, FALSE, "ValueError")
        ELSE Outcome(audit_insert(D, store_id, "login_attempt",
                                  "{\"success\": false, \"password_hash\": \"$2b$\"}"),
                     None, is_valid, "")

\* A verification that removes the credentials of a store on a wrong password.
verify_store_password_locks_out(D, store_id, password) ==
    LET result == {r \in D.store_auth : r.store_id = store_id}
        normalized == normalize_password(password)
        is_valid == \E r \in result : checkpw(normalized, r.password_hash)
        locked == IF is_valid THEN D ELSE [D EXCEPT !.store_auth = @ \ result]
    IN  IF result = {}
        THEN Outcome(D, None, FALSE, "")
        ELSE IF bcrypt_raises(normalized)
        THEN Outcome(D, None, FALSE, "ValueError")
        ELSE Outcome(audit_insert(locked, store_id, "login_attempt",
                                  json_dumps_success(is_valid)),
                     None, is_valid, "")

verify_store_password(D, store_id, password) ==
    LET result == store_auth_rows(D, store_id)
        normalized == normalize_password(password)
        is_valid == \E r \in result : checkpw(normalized, r.password_hash)
    IN  IF result = {}
        THEN Outcome(D, None, FALSE, "")
        ELSE IF bcrypt_raises(normalized)
        THEN Outcome(D, None, FALSE, "ValueError")
        ELSE Outcome(audit_insert(D, store_id, "login_attempt",
                                  json_dumps_success(is_valid)),
                     None, is_valid, "")

\* generate_passphrase(): the results a run of xkcdpass can give. A run that
\* exits with an error is raised as RuntimeError; a program that is not
\* there raises FileNotFoundError, which generate_passphrase does not catch.
generate_passphrase ==
    IF xkcdpass = "ok"
    THEN {[password |-> p, raised |-> ""] : p \in Passphrases}
    ELSE {[password |-> Text(<<>>),
           raised |-> IF xkcdpass = "fails" THEN "RuntimeError"
                      ELSE "FileNotFoundError"]}

\* A generator that falls back to the empty passphrase when xkcdpass cannot run.
create_store_auth_none_with_fallback(D, store_id, generated) ==
    create_store_auth(D, store_id, generated.password)

\* create_store_auth(store_id, None): the passphrase is generated before the
\* database is opened.
create_store_auth_none(D, store_id, generated) ==
    IF generated.raised # ""
    THEN Outcome(D, None, FALSE, generated.raised)
    ELSE create_store_auth(D, store_id, generated.password)

\* ----------------------------------------------------------- sessions
\* secrets.token_urlsafe(32): a token that was not returned before.
token_urlsafe == TokenBase + nextToken + 1

\* The rows the sweep of create_session deletes.
expired_rows(D) == {r \in D.sessions : r.expires_at < CURRENT_TIMESTAMP}

\* A token generator that returns the same token every time.
create_session_fixed_token(D, store_id, hours) ==
    LET token == TokenBase + 1
        expires_at == datetime_now + timedelta(hours)
        swept == [D EXCEPT !.sessions = @ \ expired_rows(D)]
        inserted == [swept EXCEPT !.sessions = @ \cup
                        {[token |-> token, store_id |-> store_id,
                          expires_at |-> expires_at,
                          created_at |-> CURRENT_TIMESTAMP]}]
    IN  IF \E r \in swept.sessions : r.token = token
        THEN Outcome(D, None, FALSE, "IntegrityError")
        ELSE Outcome(audit_insert(inserted, store_id, "session_created", NULL),
                     token, TRUE, "")

\* A login that also extends the other sessions of its store.
create_session_renews_store(D, store_id, hours) ==
    LET token == token_urlsafe
        expires_at == datetime_now + timedelta(hours)
        renewed == [D EXCEPT !.sessions =
                        {IF r.store_id = store_id
                         THEN [r EXCEPT !.expires_at = expires_at] ELSE r : r \in @}]
        swept == [renewed EXCEPT !.sessions = @ \ expired_rows(renewed)]
        inserted == [swept EXCEPT !.sessions = @ \cup
                        {[token |-> token, store_id |-> store_id,
                          expires_at |-> expires_at,
                          created_at |-> CURRENT_TIMESTAMP]}]
    IN  IF \E r \in swept.sessions : r.token = token
        THEN Outcome(D, None, FALSE, "IntegrityError")
        ELSE Outcome(audit_insert(inserted, store_id, "session_created", NULL),
                     token, TRUE, "")

\* A sweep that deletes only the expired sessions of the store logging in.
create_session_sweeps_own_store(D, store_id, hours) ==
    LET token == token_urlsafe
        expires_at == datetime_now + timedelta(hours)
        swept == [D EXCEPT !.sessions =
                     @ \ {r \in expired_rows(D) : r.store_id = store_id}]
        inserted == [swept EXCEPT !.sessions = @ \cup
                        {[token |-> token, store_id |-> store_id,
                          expires_at |-> expires_at,
                          created_at |-> CURRENT_TIMESTAMP]}]
    IN  IF \E r \in swept.sessions : r.token = token
        THEN Outcome(D, None, FALSE, "IntegrityError")
        ELSE Outcome(audit_insert(inserted, store_id, "session_created", NULL),
                     token, TRUE, "")

create_session(D, store_id, hours) ==
    LET token == token_urlsafe
        expires_at == datetime_now + timedelta(hours)
        swept == [D EXCEPT !.sessions = @ \ expired_rows(D)]
        inserted == [swept EXCEPT !.sessions = @ \cup
                        {[token |-> token, store_id |-> store_id,
                          expires_at |-> expires_at,
                          created_at |-> CURRENT_TIMESTAMP]}]
    IN  \* token is the primary key of sessions: a second row with it is
        \* refused, and the connection closes without a commit.
        IF \E r \in swept.sessions : r.token = token
        THEN Outcome(D, None, FALSE, "IntegrityError")
        ELSE Outcome(audit_insert(inserted, store_id, "session_created", NULL),
                     token, TRUE, "")

\* A lookup that forgets the expiry test.
live_rows_any_expiry(D, token) == {r \in D.sessions : r.token = token}

live_rows(D, token) ==
    {r \in D.sessions : r.token = token /\ r.expires_at > CURRENT_TIMESTAMP}

\* A validation that slides the expiry of the session it finds.
verify_session_renews(D, token) ==
    LET result == {r \in D.sessions : r.token = token /\ r.expires_at > CURRENT_TIMESTAMP}
        renewed == [D EXCEPT !.sessions = (@ \ result) \cup
                        {[r EXCEPT !.expires_at = datetime_now + timedelta(1)] : r \in result}]
    IN  IF result # {}
        THEN Outcome(renewed, (CHOOSE r \in result : TRUE).store_id, TRUE, "")
        ELSE Outcome(D, None, FALSE, "")

verify_session(D, token) ==
    LET result == live_rows(D, token)
    IN  IF result # {}
        THEN Outcome(D, (CHOOSE r \in result : TRUE).store_id, TRUE, "")
        ELSE Outcome(D, None, FALSE, "")

session_rows(D, token) == {r \in D.sessions : r.token = token}

\* A logout that writes its audit entry and leaves the row.
delete_session_keeps_row(D, token) ==
    LET result == {r \in D.sessions : r.token = token}
    IN  IF result # {}
        THEN Outcome(audit_insert(D, (CHOOSE r \in result : TRUE).store_id,
                                  "logout", NULL), None, TRUE, "")
        ELSE Outcome(D, None, FALSE, "")

\* A logout that ends every session of the token's store.
delete_session_all_of_store(D, token) ==
    LET result == {r \in D.sessions : r.token = token}
        store_id == (CHOOSE r \in result : TRUE).store_id
        deleted == [D EXCEPT !.sessions = {r \in @ : r.store_id # store_id}]
    IN  IF result # {}
        THEN Outcome(audit_insert(deleted, store_id, "logout", NULL), None, TRUE, "")
        ELSE Outcome(D, None, FALSE, "")

\* A logout that deletes the row and writes no audit entry.
delete_session_silent(D, token) ==
    LET result == {r \in D.sessions : r.token = token}
    IN  IF result # {}
        THEN Outcome([D EXCEPT !.sessions = @ \ result], None, TRUE, "")
        ELSE Outcome(D, None, FALSE, "")

delete_session(D, token) ==
    LET result == session_rows(D, token)
        store_id == (CHOOSE r \in result : TRUE).store_id
        deleted == [D EXCEPT !.sessions = @ \ result]
    IN  IF result # {}
        THEN Outcome(audit_insert(deleted, store_id, "logout", NULL), None, TRUE, "")
        ELSE Outcome(D, None, FALSE, "")

\* ------------------------------------------------------------ queries
\* The text of a store id: the decimal digits of the number it spells.
RECURSIVE StoreIdText(_)
StoreIdText(n) ==
    IF n < 10 THEN <<48 + n>> ELSE StoreIdText(n \div 10) \o <<48 + (n % 10)>>

\* SQLite orders TEXT values byte by byte; a proper prefix comes first.
RECURSIVE TextLess(_, _)
TextLess(a, b) ==
    IF a = <<>> THEN b # <<>>
    ELSE IF b = <<>> THEN FALSE
    ELSE IF Head(a) # Head(b) THEN Head(a) < Head(b)
    ELSE TextLess(Tail(a), Tail(b))

\* SELECT store_id, created_at, updated_at FROM store_auth
store_auth_columns(D) ==
    {[store_id |-> r.store_id, created_at |-> r.created_at,
      updated_at |-> r.updated_at] : r \in D.store_auth}

\* A listing ordered by the number a store id spells.
list_stores_by_number(D) ==
    LET results == store_auth_columns(D)
    IN  CHOOSE rows \in [1..Cardinality(results) -> results] :
            \A i, j \in DOMAIN rows : i < j => rows[i].store_id < rows[j].store_id

list_stores(D) ==
    LET results == store_auth_columns(D)
    IN  CHOOSE rows \in [1..Cardinality(results) -> results] :
            \A i, j \in DOMAIN rows :
                i < j => TextLess(StoreIdText(rows[i].store_id),
                                  StoreIdText(rows[j].store_id))

\* The orders in which n rows can come out.
Orderings(n) == {p \in [1..n -> 1..n] : \A i, j \in 1..n : i # j => p[i] # p[j]}

\* The lists get_audit_log may return.  `if store_id:` filters for a store id
\* and not for None; ORDER BY timestamp DESC leaves the order of entries of
\* one second open; a negative LIMIT is no limit.
get_audit_log(D, store_id, limit) ==
    LET Matches(e) == store_id = None \/ e.store_id = store_id
        matching == SelectSeq(D.audit_log, Matches)
        n == IF limit < 0 THEN Len(matching) ELSE Min(limit, Len(matching))
    IN  {[i \in 1..n |-> matching[p[i]]] : p \in
            {q \in Orderings(Len(matching)) : \A i, j \in 1..Len(matching) :
                i < j => matching[q[i]].timestamp >= matching[q[j]].timestamp}}

\* ------------------------------------------------- calls of the library
\* A call is disabled when it would grow the audit log past MaxAudit.
Fits(out) == Len(out.db.audit_log) <= MaxAudit

\* The tokens a client can present: those issued, and one that never was.
ClientTokens == {BogusToken} \cup {i.token : i \in issuedBy}

Issue(token, store_id) == [token |-> token, store_id |-> store_id]

Tokens(rows) == {r.token : r \in rows}

CreateStoreAuthCall(store_id, password) ==
    LET out == create_store_auth(DB, store_id, password)
    IN  /\ Fits(out)
        /\ Commit(out.db)
        /\ secret' = IF out.raised = ""
                     THEN [secret EXCEPT ![store_id] = {normalize_password(password)}]
                     ELSE secret
        /\ last' = Call("create_store_auth", store_id, None, out)
        /\ UNCHANGED <<clock, env, nextToken, yaml, issuedBy, removed, revoked>>

CreateStoreAuth ==
    \E store_id \in StoreIds, password \in Passwords :
        CreateStoreAuthCall(store_id, password)

\* create_store_auth(store_id, None): the password comes from generate_passphrase.
CreateStoreAuthGenerated ==
    \E store_id \in StoreIds, generated \in generate_passphrase :
        LET out == create_store_auth_none(DB, store_id, generated)
        IN  /\ Fits(out)
            /\ Commit(out.db)
            /\ secret' = IF out.raised = ""
                         THEN [secret EXCEPT ![store_id] =
                                  {normalize_password(generated.password)}]
                         ELSE secret
            /\ last' = Call("create_store_auth", store_id, None, out)
            /\ UNCHANGED <<clock, env, nextToken, yaml, issuedBy, removed, revoked>>

\* The xkcdpass program stops working, is removed, or is put back, after the
\* module was imported.
XkcdpassChanges ==
    /\ xkcdpass' \in {"ok", "fails", "missing"} \ {xkcdpass}
    /\ last' = Call("xkcdpass", None, None, Outcome(DB, None, FALSE, ""))
    /\ UNCHANGED <<clock, tz, bcryptStrict, callers, store_auth, sessions,
                   audit_log, nextToken, yaml, history>>

VerifyStorePassword ==
    \E store_id \in StoreIds, password \in Passwords \cup Passphrases :
        LET out == verify_store_password(DB, store_id, password)
        IN  /\ Fits(out)
            /\ Commit(out.db)
            /\ last' = Call("verify_store_password", store_id, None, out)
            /\ UNCHANGED <<clock, env, nextToken, yaml, history>>

CreateSession ==
    \E store_id \in StoreIds, hours \in TtlHours :
        LET out == create_session(DB, store_id, hours)
            issued == out.raised = ""
        IN  /\ nextToken < MaxTokens
            /\ Fits(out)
            /\ Commit(out.db)
            /\ nextToken' = nextToken + 1
            /\ issuedBy' = IF issued
                           THEN issuedBy \cup {Issue(out.ret, store_id)}
                           ELSE issuedBy
            /\ removed' = IF issued THEN removed \cup Tokens(expired_rows(DB))
                          ELSE removed
            /\ last' = Call("create_session", store_id, out.ret, out)
            /\ UNCHANGED <<clock, env, yaml, revoked, secret>>

VerifySession ==
    \E token \in ClientTokens :
        LET out == verify_session(DB, token)
        IN  /\ Commit(out.db)
            /\ last' = Call("verify_session", None, token, out)
            /\ UNCHANGED <<clock, env, nextToken, yaml, history>>

DeleteSession ==
    \E token \in ClientTokens :
        LET out == delete_session(DB, token)
        IN  /\ Fits(out)
            /\ Commit(out.db)
            /\ removed' = removed \cup Tokens(session_rows(DB, token))
            /\ revoked' = revoked \cup {token}
            /\ last' = Call("delete_session", None, token, out)
            /\ UNCHANGED <<clock, env, nextToken, yaml, issuedBy, secret>>

ListStores ==
    /\ last' = [Call("list_stores", None, None, Outcome(DB, None, FALSE, ""))
                   EXCEPT !.rows = list_stores(DB)]
    /\ UNCHANGED <<clock, env, store_auth, sessions, audit_log, nextToken, yaml,
                   history>>

HasAuth ==
    \E store_id \in StoreIds :
        /\ last' = Call("hasAuth", store_id, None,
                        Outcome(DB, None, hasAuth(DB, store_id), ""))
        /\ UNCHANGED <<clock, env, store_auth, sessions, audit_log, nextToken,
                       yaml, history>>

\* The call returns one of the lists get_audit_log allows; which one, among
\* those that differ in the order of the entries of one second, is not state.
GetAuditLog ==
    \E store_id \in StoreIds \cup {None}, limit \in Limits :
        /\ last' = [Call("get_audit_log", store_id, None,
                         Outcome(DB, None, FALSE, ""))
                       EXCEPT !.limit = limit]
        /\ UNCHANGED <<clock, env, store_auth, sessions, audit_log,
                       nextToken, yaml, history>>

\* The argument is a string a caller supplies or, after a call, what that
\* call returned.
NormalizePassword ==
    \E password \in IF last.op = "normalize_password" THEN {last.text} ELSE Strings :
        /\ last' = [Call("normalize_password", None, None,
                         Outcome(DB, None, FALSE, ""))
                       EXCEPT !.password = password,
                              !.text = normalize_password(password)]
        /\ UNCHANGED <<clock, env, store_auth, sessions, audit_log, nextToken,
                       yaml, history>>

\* --------------------------------------------------------- HTTP layer
\* Every store of the model has its stores/store<id>.yml; store "2" prices in
\* standard mode and store "10" in itemized mode.
pricing_mode(store_id) == IF store_id = 2 THEN "standard" ELSE "itemized"

\* A dependency that looks the token up without regard to expires_at.
get_current_store_any_session(D, token) ==
    LET rows == session_rows(D, token)
    IN  IF rows = {}
        THEN Outcome(D, None, FALSE, "401")
        ELSE Outcome(D, (CHOOSE r \in rows : TRUE).store_id, TRUE, "")

\* The dependency of every protected handler: the store id of the bearer
\* token's session, or HTTP 401.
get_current_store(D, token) ==
    LET store_id == verify_session(D, token).ret
    IN  IF store_id = None
        THEN Outcome(D, None, FALSE, "401")
        ELSE Outcome(D, store_id, TRUE, "")

\* What a protected write handler answers, given its own checks of the body.
\* The path's store_id is not compared with the authenticated store.
write_status(D, store_id, token, csrf_ok, body_ok) ==
    LET auth == get_current_store(D, token)
    IN  IF auth.raised # "" THEN auth
        ELSE IF ~csrf_ok THEN Outcome(D, auth.ret, FALSE, "403")
        ELSE IF ~body_ok THEN Outcome(D, auth.ret, FALSE, "400")
        ELSE Outcome(D, auth.ret, TRUE, "")

Write(op, store_id, token, out, saved) ==
    /\ yaml' = IF out.raised = "" THEN [yaml EXCEPT ![store_id] = saved] ELSE yaml
    /\ last' = Call(op, store_id, token, out)
    /\ UNCHANGED <<clock, env, store_auth, sessions, audit_log, nextToken, history>>

update_prices ==
    \E store_id \in StoreIds, token \in ClientTokens, csrf_ok \in BOOLEAN, price \in {0, 1} :
        Write("update_prices", store_id, token,
              write_status(DB, store_id, token, csrf_ok, pricing_mode(store_id) = "standard"),
              [yaml[store_id] EXCEPT !.price = price])

update_itemized_prices ==
    \E store_id \in StoreIds, token \in ClientTokens, csrf_ok \in BOOLEAN, price \in {0, 1} :
        Write("update_itemized_prices", store_id, token,
              write_status(DB, store_id, token, csrf_ok, pricing_mode(store_id) = "itemized"),
              [yaml[store_id] EXCEPT !.price = price])

\* The body's file type and size are the handler's only checks of its own;
\* a new floorplan clears every box location.
upload_floorplan ==
    \E store_id \in StoreIds, token \in ClientTokens, file_ok \in BOOLEAN :
        Write("upload_floorplan", store_id, token,
              write_status(DB, store_id, token, TRUE, file_ok),
              [yaml[store_id] EXCEPT !.floorplan = 1, !.location = 0])

update_locations ==
    \E store_id \in StoreIds, token \in ClientTokens, csrf_ok \in BOOLEAN, coords \in {0, 1} :
        Write("update_locations", store_id, token,
              write_status(DB, store_id, token, csrf_ok, TRUE),
              [yaml[store_id] EXCEPT !.location = coords])

verify_token ==
    \E store_id \in StoreIds, token \in ClientTokens :
        LET auth == get_current_store(DB, token)
            out == IF auth.raised = "" /\ auth.ret # store_id
                   THEN Outcome(DB, auth.ret, FALSE, "403")
                   ELSE auth
        IN  /\ last' = Call("verify_token", store_id, token, out)
            /\ UNCHANGED <<clock, env, store_auth, sessions, audit_log, nextToken,
                           yaml, history>>

\* The wrapper of require_store_auth around a handler with the path
\* parameter store_id: what it answers before the handler runs ("" when it
\* calls the handler).
require_store_auth(D, store_id, token) ==
    LET auth == get_current_store(D, token)
    IN  IF auth.raised # "" THEN auth
        ELSE IF auth.ret = None \/ store_id = None
        THEN Outcome(D, auth.ret, FALSE, "500")
        ELSE IF auth.ret # store_id THEN Outcome(D, auth.ret, FALSE, "403")
        ELSE Outcome(D, auth.ret, TRUE, "")

\* A handler decorated with @require_store_auth(), as in the decorator's
\* docstring; the handler itself changes nothing.
protected_endpoint ==
    \E store_id \in StoreIds, token \in ClientTokens :
        /\ last' = Call("protected_endpoint", store_id, token,
                        require_store_auth(DB, store_id, token))
        /\ UNCHANGED <<clock, env, store_auth, sessions, audit_log, nextToken,
                       yaml, history>>

\* A login that forgets to refuse a wrong password.
login_result_without_refusal(D, store_id, password, remember_me) ==
    LET verified == verify_store_password(D, store_id, password)
        token_duration == IF remember_me THEN RememberHours ELSE LoginHours
    IN  IF ~hasAuth(D, store_id) THEN Outcome(D, None, FALSE, "400")
        ELSE IF verified.raised # "" THEN Outcome(verified.db, None, FALSE, "500")
        ELSE LET created == create_session(verified.db, store_id, token_duration)
             IN  IF created.raised # ""
                 THEN Outcome(verified.db, None, FALSE, "500")
                 ELSE created

login_result(D, store_id, password, remember_me) ==
    LET verified == verify_store_password(D, store_id, password)
        token_duration == IF remember_me THEN RememberHours ELSE LoginHours
    IN  IF ~hasAuth(D, store_id) THEN Outcome(D, None, FALSE, "400")
        ELSE IF verified.raised # "" THEN Outcome(verified.db, None, FALSE, "500")
        ELSE IF ~verified.ok THEN Outcome(verified.db, None, FALSE, "401")
        ELSE LET created == create_session(verified.db, store_id, token_duration)
             IN  IF created.raised # ""
                 THEN Outcome(verified.db, None, FALSE, "500")
                 ELSE created

login ==
    \E store_id \in StoreIds, password \in Passwords \cup Passphrases,
       remember_me \in BOOLEAN :
        LET out == login_result(DB, store_id, password, remember_me)
            issued == out.raised = ""
            verified == verify_store_password(DB, store_id, password)
            drawn == hasAuth(DB, store_id) /\ verified.raised = "" /\ verified.ok
        IN  /\ drawn => nextToken < MaxTokens
            /\ Fits(out)
            /\ Commit(out.db)
            /\ nextToken' = IF drawn THEN nextToken + 1 ELSE nextToken
            /\ issuedBy' = IF issued
                           THEN issuedBy \cup {Issue(out.ret, store_id)}
                           ELSE issuedBy
            /\ removed' = IF issued THEN removed \cup Tokens(expired_rows(DB))
                          ELSE removed
            /\ last' = Call("login", store_id, out.ret, out)
            /\ UNCHANGED <<clock, env, yaml, revoked, secret>>

\* The handler names the dependency's result `token` and hands it to
\* delete_session: what it hands over is the authenticated store id.
logout_result(D, token) ==
    LET auth == get_current_store(D, token)
    IN  IF auth.raised # "" THEN auth
        ELSE Outcome(delete_session(D, auth.ret).db, auth.ret, TRUE, "")

logout ==
    \E store_id \in StoreIds, token \in ClientTokens :
        LET out == logout_result(DB, token)
        IN  /\ Fits(out)
            /\ Commit(out.db)
            /\ removed' = IF out.raised = ""
                          THEN removed \cup Tokens(session_rows(DB, out.ret))
                          ELSE removed
            /\ revoked' = IF out.raised = "" THEN revoked \cup {out.ret} ELSE revoked
            /\ last' = Call("logout", store_id, token, out)
            /\ UNCHANGED <<clock, env, nextToken, yaml, issuedBy, secret>>

\* --------------------------------------------------- concurrent callers
\* Processes that call create_store_auth and create_session at the same time,
\* each on the connection get_db opens for the call. A call is a sequence of
\* statements; SQLite runs each statement alone, lets one connection at a
\* time hold a write transaction, and keeps the writes of a transaction out
\* of the database until db.commit().
Procs == {1, 2}

\* What concurrent callers pass: the passwords "b-a-b" and "a", sessions of
\* one hour.
CallerPasswords == Passphrases \cup {Text(<<97>>)}
CallerHours == {1}

NoTx == [store_auth |-> {}, sessions |-> {}, audit_log |-> <<>>]

\* A process outside a call.  In a call: pc is the statement it executes
\* next, existing is what its SELECT returned, tx is the database as its open
\* transaction sees it, and stmts counts the writing statements the
\* transaction has executed, and open says that the connection of get_db is
\* open.  Once the call has raised pc is "raised", and what is kept is what
\* the caller sees of it.
Idle ==
    [pc |-> "idle", op |-> "", store_id |-> None, password_hash |-> hashpw(Text(<<>>)),
     token |-> None, expires_at |-> 0, existing |-> FALSE, action |-> "",
     tx |-> NoTx, stmts |-> 0, open |-> FALSE, raised |-> ""]

\* The connections that hold SQLite's write lock: a transaction is open from
\* a call's first writing statement to its commit or the close of get_db.
Writers == {p \in Procs : callers[p].stmts > 0 /\ callers[p].open}

InCall == {p \in Procs : callers[p].pc \notin {"idle", "raised"}}

\* A connection in autocommit mode: every statement is in the database at once.
uncommitted_autocommit(D, tx) == tx

\* sqlite3.connect with the default isolation level: a writing statement
\* opens a transaction, and the database others read stays D while the
\* connection sees tx.
uncommitted(D, tx) == D

\* A get_db without its finally clause: an exception leaves the connection,
\* and the transaction it holds, open.
Raise_leaves_open(p, exception) ==
    callers' = [callers EXCEPT ![p] =
        [Idle EXCEPT !.pc = "raised", !.raised = exception, !.op = callers[p].op,
                     !.store_id = callers[p].store_id, !.stmts = callers[p].stmts,
                     !.open = TRUE]]

\* The exception of a statement ends the with block: get_db closes the
\* connection without a commit and the open transaction is rolled back.
Raise(p, exception) ==
    callers' = [callers EXCEPT ![p] =
        [Idle EXCEPT !.pc = "raised", !.raised = exception, !.op = callers[p].op,
                     !.store_id = callers[p].store_id, !.stmts = callers[p].stmts]]

\* create_store_auth up to the with block: the password is normalized and
\* hashed before the database is opened.
StartCreateStoreAuth(p) ==
    \E store_id \in StoreIds, password \in CallerPasswords :
        /\ callers[p].pc = "idle"
        /\ Len(audit_log) + Cardinality(InCall) < MaxAudit
        /\ ~bcrypt_raises(normalize_password(password))
        /\ callers' = [callers EXCEPT ![p] =
               [Idle EXCEPT !.pc = "select", !.op = "create_store_auth",
                            !.open = TRUE,
                            !.store_id = store_id,
                            !.password_hash = hashpw(normalize_password(password))]]
        /\ UNCHANGED <<clock, tz, bcryptStrict, xkcdpass, store_auth, sessions,
                       audit_log, nextToken, yaml, last, history>>

\* SELECT * FROM store_auth WHERE store_id = ?  (a read: no transaction)
SelectExisting(p) ==
    /\ callers[p].pc = "select"
    /\ callers' = [callers EXCEPT ![p].pc = "write",
                                  ![p].existing = hasAuth(DB, callers[p].store_id)]
    /\ UNCHANGED <<clock, tz, bcryptStrict, xkcdpass, store_auth, sessions,
                   audit_log, nextToken, yaml, last, history>>

\* The row statement written as INSERT OR REPLACE.
store_auth_write_or_replace(D, store_id, password_hash, existing) ==
    LET rows == store_auth_rows(D, store_id)
        updated == [D EXCEPT !.store_auth = (@ \ rows) \cup
                        {[r EXCEPT !.password_hash = password_hash,
                                   !.updated_at = CURRENT_TIMESTAMP] : r \in rows}]
        inserted == [D EXCEPT !.store_auth = (@ \ rows) \cup
                        {[store_id |-> store_id,
                          password_hash |-> password_hash,
                          created_at |-> CURRENT_TIMESTAMP,
                          updated_at |-> CURRENT_TIMESTAMP]}]
    IN  IF existing
        THEN Outcome(updated, "password_updated", TRUE, "")
        ELSE Outcome(inserted, "store_created", TRUE, "")

\* The UPDATE or the INSERT of create_store_auth, chosen by what the SELECT
\* returned, on the database as it is when the statement runs; ret is the
\* action the call goes on to log. store_id is the primary key of store_auth.
store_auth_write(D, store_id, password_hash, existing) ==
    LET rows == store_auth_rows(D, store_id)
        updated == [D EXCEPT !.store_auth = (@ \ rows) \cup
                        {[r EXCEPT !.password_hash = password_hash,
                                   !.updated_at = CURRENT_TIMESTAMP] : r \in rows}]
        inserted == [D EXCEPT !.store_auth = @ \cup
                        {[store_id |-> store_id,
                          password_hash |-> password_hash,
                          created_at |-> CURRENT_TIMESTAMP,
                          updated_at |-> CURRENT_TIMESTAMP]}]
    IN  IF existing
        THEN Outcome(updated, "password_updated", TRUE, "")
        ELSE IF rows # {}
        THEN Outcome(D, "", FALSE, "IntegrityError")
        ELSE Outcome(inserted, "store_created", TRUE, "")

\* The first writing statement of create_store_auth. It waits while another
\* connection holds the write lock.
WriteStoreAuth(p) ==
    LET c == callers[p]
        out == store_auth_write(DB, c.store_id, c.password_hash, c.existing)
    IN  /\ c.pc = "write"
        /\ Writers \ {p} = {}
        /\ IF out.raised # ""
           THEN /\ Raise(p, out.raised)
                /\ UNCHANGED <<store_auth, sessions, audit_log>>
           ELSE /\ callers' = [callers EXCEPT ![p].pc = "audit", ![p].tx = out.db,
                                              ![p].action = out.ret, ![p].stmts = 1]
                /\ Commit(uncommitted(DB, out.db))
        /\ UNCHANGED <<clock, tz, bcryptStrict, xkcdpass, nextToken, yaml, last,
                       history>>

\* create_session up to the with block: the token and expires_at.
StartCreateSession(p) ==
    \E store_id \in StoreIds, hours \in CallerHours :
        /\ callers[p].pc = "idle"
        /\ Len(audit_log) + Cardinality(InCall) < MaxAudit
        /\ nextToken < MaxTokens
        /\ callers' = [callers EXCEPT ![p] =
               [Idle EXCEPT !.pc = "sweep", !.op = "create_session",
                            !.open = TRUE,
                            !.store_id = store_id, !.token = token_urlsafe,
                            !.expires_at = datetime_now + timedelta(hours)]]
        /\ nextToken' = nextToken + 1
        /\ UNCHANGED <<clock, tz, bcryptStrict, xkcdpass, store_auth, sessions,
                       audit_log, yaml, last, history>>

\* DELETE FROM sessions WHERE expires_at < CURRENT_TIMESTAMP, the first
\* writing statement of create_session.
SweepSessions(p) ==
    LET swept == [DB EXCEPT !.sessions = @ \ expired_rows(DB)]
    IN  /\ callers[p].pc = "sweep"
        /\ Writers \ {p} = {}
        /\ callers' = [callers EXCEPT ![p].pc = "insert", ![p].tx = swept,
                                      ![p].stmts = 1]
        /\ Commit(uncommitted(DB, swept))
        /\ UNCHANGED <<clock, tz, bcryptStrict, xkcdpass, nextToken, yaml, last,
                       history>>

\* INSERT INTO sessions (token, store_id, expires_at); token is the primary key.
InsertSession(p) ==
    LET c == callers[p]
        inserted == [c.tx EXCEPT !.sessions = @ \cup
                        {[token |-> c.token, store_id |-> c.store_id,
                          expires_at |-> c.expires_at,
                          created_at |-> CURRENT_TIMESTAMP]}]
    IN  /\ c.pc = "insert"
        /\ IF \E r \in c.tx.sessions : r.token = c.token
           THEN /\ Raise(p, "IntegrityError")
                /\ UNCHANGED <<store_auth, sessions, audit_log>>
           ELSE /\ callers' = [callers EXCEPT ![p].pc = "audit", ![p].tx = inserted,
                                              ![p].action = "session_created",
                                              ![p].stmts = 2]
                /\ Commit(uncommitted(DB, inserted))
        /\ UNCHANGED <<clock, tz, bcryptStrict, xkcdpass, nextToken, yaml, last,
                       history>>

\* INSERT INTO audit_log (store_id, action)
InsertAudit(p) ==
    LET c == callers[p]
        logged == audit_insert(c.tx, c.store_id, c.action, NULL)
    IN  /\ c.pc = "audit"
        /\ callers' = [callers EXCEPT ![p].pc = "commit", ![p].tx = logged,
                                      ![p].stmts = @ + 1]
        /\ Commit(uncommitted(DB, logged))
        /\ UNCHANGED <<clock, tz, bcryptStrict, xkcdpass, nextToken, yaml, last,
                       history>>

\* delete_session up to its SELECT.
StartDeleteSession(p) ==
    \E token \in {r.token : r \in sessions} \cup {BogusToken} :
        /\ callers[p].pc = "idle"
        /\ Len(audit_log) + Cardinality(InCall) < MaxAudit
        /\ callers' = [callers EXCEPT ![p] =
               [Idle EXCEPT !.pc = "find", !.op = "delete_session",
                            !.open = TRUE, !.token = token]]
        /\ UNCHANGED <<clock, tz, bcryptStrict, xkcdpass, store_auth, sessions,
                       audit_log, nextToken, yaml, last, history>>

\* SELECT store_id FROM sessions WHERE token = ?  (a read: no transaction).
\* With no row the call returns at once.
SelectSession(p) ==
    LET result == session_rows(DB, callers[p].token)
    IN  /\ callers[p].pc = "find"
        /\ callers' = [callers EXCEPT ![p] =
               IF result = {} THEN Idle
               ELSE [@ EXCEPT !.pc = "delete", !.existing = TRUE,
                              !.store_id = (CHOOSE r \in result : TRUE).store_id]]
        /\ UNCHANGED <<clock, tz, bcryptStrict, xkcdpass, store_auth, sessions,
                       audit_log, nextToken, yaml, last, history>>

\* DELETE FROM sessions WHERE token = ?, the first writing statement of
\* delete_session; it deletes the rows there are, none included.
DeleteSessionRow(p) ==
    LET deleted == [DB EXCEPT !.sessions = @ \ session_rows(DB, callers[p].token)]
    IN  /\ callers[p].pc = "delete"
        /\ Writers \ {p} = {}
        /\ callers' = [callers EXCEPT ![p].pc = "audit", ![p].tx = deleted,
                                      ![p].action = "logout", ![p].stmts = 1]
        /\ Commit(uncommitted(DB, deleted))
        /\ UNCHANGED <<clock, tz, bcryptStrict, xkcdpass, nextToken, yaml, last,
                       history>>

\* db.commit(): the transaction's writes become the database, and the call
\* returns.
CommitTx(p) ==
    /\ callers[p].pc = "commit"
    /\ callers' = [callers EXCEPT ![p] = Idle]
    /\ Commit(callers[p].tx)
    /\ UNCHANGED <<clock, tz, bcryptStrict, xkcdpass, nextToken, yaml, last,
                   history>>

\* A writing statement or the commit fails in the storage: the write lock is
\* not had within the timeout ("database is locked"), the disk is full, or
\* an I/O error occurs. sqlite3 raises OperationalError.
StorageFails(p) ==
    /\ callers[p].pc \in {"write", "sweep", "delete", "insert", "audit", "commit"}
    /\ Raise(p, "OperationalError")
    /\ UNCHANGED <<clock, tz, bcryptStrict, xkcdpass, store_auth, sessions,
                   audit_log, nextToken, yaml, last, history>>

\* The caller has the exception; the process is free to call again.
Return(p) ==
    /\ callers[p].pc = "raised"
    /\ callers' = [callers EXCEPT ![p] = Idle]
    /\ UNCHANGED <<clock, tz, bcryptStrict, xkcdpass, store_auth, sessions,
                   audit_log, nextToken, yaml, last, history>>

\* ------------------------------------------------------- command line
\* The create and update commands of tools/manage_auth.py, run by processes
\* at the same time.  A command reads list_stores and then, in a second call
\* of the library, runs create_store_auth; each store has its yml file.
cmd_start(p) ==
    \E op \in {"cmd_create", "cmd_update"}, store_id \in StoreIds :
        /\ callers[p].pc = "idle"
        /\ Len(audit_log) + Cardinality(InCall) < MaxAudit
        /\ callers' = [callers EXCEPT ![p] =
               [Idle EXCEPT !.pc = "list_stores", !.op = op, !.store_id = store_id]]
        /\ UNCHANGED <<clock, tz, bcryptStrict, xkcdpass, store_auth, sessions,
                       audit_log, nextToken, yaml, last, history>>

\* stores = list_stores(): cmd_create goes on when the store is not in the
\* list, cmd_update when it is and the update is forced or confirmed.
cmd_list_stores(p) ==
    \E confirmed \in BOOLEAN :
        LET c == callers[p]
            stores == list_stores(DB)
            found == \E k \in DOMAIN stores : stores[k].store_id = c.store_id
            goes_on == IF c.op = "cmd_create" THEN ~found ELSE found /\ confirmed
        IN  /\ c.pc = "list_stores"
            /\ callers' = [callers EXCEPT ![p] =
                   IF goes_on THEN [c EXCEPT !.pc = "create_store_auth",
                                             !.existing = found]
                   ELSE Idle]
            /\ UNCHANGED <<clock, tz, bcryptStrict, xkcdpass, store_auth, sessions,
                           audit_log, nextToken, yaml, last, history>>

\* password = create_store_auth(store_id, password=args.password)
cmd_create_store_auth(p) ==
    \E password \in CallerPasswords :
        LET out == create_store_auth(DB, callers[p].store_id, password)
        IN  /\ callers[p].pc = "create_store_auth"
            /\ out.raised = ""
            /\ Commit(out.db)
            /\ callers' = [callers EXCEPT ![p] = Idle]
            /\ UNCHANGED <<clock, tz, bcryptStrict, xkcdpass, nextToken, yaml, last,
                           history>>

\* ------------------------------------------------------------- clock
\* Time passes between two calls.
Tick ==
    /\ \E d \in 1..MaxClock :
          /\ clock + d <= MaxClock
          /\ clock' = clock + d
    /\ last' = Call("sleep", None, None, Outcome(DB, None, FALSE, ""))
    /\ UNCHANGED <<env, store_auth, sessions, audit_log, nextToken, yaml, history>>

\* A whole second passes between two calls.
TickSecond ==
    /\ clock + TicksPerSecond <= MaxClock
    /\ clock' = clock + TicksPerSecond
    /\ last' = Call("sleep", None, None, Outcome(DB, None, FALSE, ""))
    /\ UNCHANGED <<env, store_auth, sessions, audit_log, nextToken, yaml, history>>

\* --------------------------------------------------------------- init
InitialYaml == [s \in StoreIds |-> [price |-> 0, location |-> 0, floorplan |-> 0]]

Init ==
    /\ clock = 0
    /\ tz \in {h * HourTicks : h \in TzHours}
    /\ bcryptStrict \in BOOLEAN
    /\ xkcdpass = "ok"
    /\ callers = [p \in Procs |-> Idle]
    /\ store_auth = {}
    /\ sessions = {}
    /\ audit_log = <<>>
    /\ nextToken = 0
    /\ yaml = InitialYaml
    /\ last = Call("init_db", None, None, Outcome(DB, None, FALSE, ""))
    /\ issuedBy = {}
    /\ removed = {}
    /\ revoked = {}
    /\ secret = [s \in StoreIds |-> {}]

\* The credential store alone; local time plays no part in it.
InitCredentials == Init /\ tz = 0

NextCredentials ==
    \/ Tick
    \/ CreateStoreAuth
    \/ CreateStoreAuthGenerated
    \/ VerifyStorePassword

SpecCredentials == InitCredentials /\ [][NextCredentials]_vars

\* The session manager alone; bcrypt plays no part in it.
InitSessions == Init /\ bcryptStrict = FALSE

NextSessions ==
    \/ Tick
    \/ CreateSession
    \/ VerifySession
    \/ DeleteSession

SpecSessions == InitSessions /\ [][NextSessions]_vars

\* Login and logout over HTTP, for stores whose credentials the command
\* line created with a generated passphrase.
InitHttp == Init /\ tz = 0

NextHttp ==
    \/ Tick
    \/ CreateStoreAuthGenerated
    \/ login
    \/ logout
    \/ verify_token

SpecHttp == InitHttp /\ [][NextHttp]_vars

\* The protected write handlers, over sessions of either store.
InitWrites == Init /\ tz = 0 /\ bcryptStrict = FALSE

NextWrites ==
    \/ CreateSession
    \/ update_prices
    \/ update_itemized_prices
    \/ upload_floorplan
    \/ update_locations

SpecWrites == InitWrites /\ [][NextWrites]_vars

\* The three queries, over the credentials and the audit log that creating
\* stores and verifying passwords leave as the seconds pass.
InitQueries == Init /\ tz = 0 /\ bcryptStrict = FALSE

NextQueries ==
    \/ TickSecond
    \/ CreateStoreAuthGenerated
    \/ VerifyStorePassword
    \/ ListStores
    \/ HasAuth
    \/ GetAuditLog

SpecQueries == InitQueries /\ [][NextQueries]_vars

\* Every operation of the library on one database, within one second:
\* credentials from generated passphrases, sessions, and the three queries.
InitLibrary == Init /\ tz = 0 /\ bcryptStrict = FALSE

NextLibrary ==
    \/ CreateStoreAuthGenerated
    \/ VerifyStorePassword
    \/ CreateSession
    \/ VerifySession
    \/ DeleteSession
    \/ ListStores
    \/ HasAuth
    \/ GetAuditLog

SpecLibrary == InitLibrary /\ [][NextLibrary]_vars

\* normalize_password alone, a function of its argument.
InitNormalize == Init /\ tz = 0 /\ bcryptStrict = FALSE

NextNormalize == NormalizePassword

SpecNormalize == InitNormalize /\ [][NextNormalize]_vars

\* Generated passwords while the xkcdpass program comes and goes.
InitPassphrase == Init /\ tz = 0 /\ bcryptStrict = FALSE

NextPassphrase ==
    \/ TickSecond
    \/ XkcdpassChanges
    \/ CreateStoreAuthGenerated
    \/ VerifyStorePassword
    \/ HasAuth

SpecPassphrase == InitPassphrase /\ [][NextPassphrase]_vars

\* Two processes calling create_store_auth and create_session at once, on a
\* server west of UTC.
InitConcurrent == Init /\ tz < 0 /\ bcryptStrict = FALSE

NextConcurrent ==
    \E p \in Procs :
        \/ StartCreateStoreAuth(p)
        \/ SelectExisting(p)
        \/ WriteStoreAuth(p)
        \/ StartCreateSession(p)
        \/ SweepSessions(p)
        \/ InsertSession(p)
        \/ InsertAudit(p)
        \/ CommitTx(p)
        \/ StorageFails(p)
        \/ Return(p)

SpecConcurrent == InitConcurrent /\ [][NextConcurrent]_vars

\* Two processes logging in and out at once: create_session and
\* delete_session, statement by statement.
InitLogout == Init /\ tz = 0 /\ bcryptStrict = FALSE

NextLogout ==
    \E p \in Procs :
        \/ StartCreateSession(p)
        \/ SweepSessions(p)
        \/ InsertSession(p)
        \/ StartDeleteSession(p)
        \/ SelectSession(p)
        \/ DeleteSessionRow(p)
        \/ InsertAudit(p)
        \/ CommitTx(p)
        \/ StorageFails(p)
        \/ Return(p)

SpecLogout == InitLogout /\ [][NextLogout]_vars

\* The next statement of a call under way.  The interpreter runs the
\* statements of a call one after the other, and a statement that waits for
\* the write lock ends within the timeout of sqlite3.connect, with the lock
\* or with OperationalError: a call under way is never kept from its next
\* step for ever.
Proceed(p) ==
    \/ SelectExisting(p)
    \/ WriteStoreAuth(p)
    \/ SweepSessions(p)
    \/ InsertSession(p)
    \/ SelectSession(p)
    \/ DeleteSessionRow(p)
    \/ InsertAudit(p)
    \/ CommitTx(p)
    \/ StorageFails(p)

SpecLogoutFair == SpecLogout /\ \A p \in Procs : WF_vars(Proceed(p))

\* The checks of a bearer token against the path, over sessions of either
\* store that are issued, deleted and left to expire.
InitAccess == Init /\ tz = 0 /\ bcryptStrict = FALSE

NextAccess ==
    \/ TickSecond
    \/ CreateSession
    \/ DeleteSession
    \/ verify_token
    \/ protected_endpoint

SpecAccess == InitAccess /\ [][NextAccess]_vars

\* The login handler over the credentials of generated passwords, as the
\* seconds pass.
InitLogin == Init /\ tz = 0

NextLogin ==
    \/ TickSecond
    \/ CreateStoreAuthGenerated
    \/ login

SpecLogin == InitLogin /\ [][NextLogin]_vars

\* Two administrators at the command line at once.
InitCli == Init /\ tz = 0 /\ bcryptStrict = FALSE

NextCli ==
    \E p \in Procs :
        \/ cmd_start(p)
        \/ cmd_list_stores(p)
        \/ cmd_create_store_auth(p)

SpecCli == InitCli /\ [][NextCli]_vars

\* The whole system: every operation over every environment.  Its state
\* space is the product of those of the parts above.
Next ==
    \/ NextCredentials
    \/ NextSessions
    \/ NextHttp
    \/ NextWrites
    \/ NextQueries
    \/ NextLibrary
    \/ NextNormalize
    \/ NextPassphrase
    \/ NextConcurrent
    \/ NextLogout
    \/ NextAccess
    \/ NextLogin
    \/ NextCli

Spec == Init /\ [][Next]_vars

\* ------------------------------------------------------------ claims
DBnext == [store_auth |-> store_auth', sessions |-> sessions', audit_log |-> audit_log']

IssuedTokens == {i.token : i \in issuedBy}

\* C1: create_session(store_id, ttl) followed at once by verify_session(token)
\* returns store_id, and every verify_session(token) made after the clock has
\* passed the issue time plus ttl hours (the expires_at that create_session
\* computed from datetime.now()) returns None.
C1_IssueThenValidate ==
    /\ last.op = "create_session" =>
           verify_session(DB, last.token).ret = last.store
    /\ \A r \in sessions :
           datetime_now > r.expires_at => verify_session(DB, r.token).ret = None

\* C2: verify_session returns a store id s only for a token whose session row
\* exists, was inserted by a create_session for s, has not been removed and
\* has expires_at later than the database's current time; otherwise it
\* returns None; it never raises.
C2_ValidateOnlyLive ==
    last.op = "verify_session" =>
        LET live == \E r \in sessions :
                        /\ r.token = last.token
                        /\ r.expires_at > CURRENT_TIMESTAMP
        IN  /\ last.raised = ""
            /\ last.ret # None =>
                   /\ \E r \in sessions :
                          /\ r.token = last.token
                          /\ r.store_id = last.ret
                          /\ r.expires_at > CURRENT_TIMESTAMP
                   /\ \E i \in issuedBy :
                          i.token = last.token /\ i.store_id = last.ret
                   /\ last.token \notin removed
            /\ last.ret = None => ~live

C2_Witness ==
    /\ last.op = "verify_session"
    /\ last.ret \in StoreIds
    /\ \E t \in removed : TRUE

\* C3: a write handler changes the configuration of store S only when the
\* request's bearer token is a live session whose store_id is S.
C3_WritesOnlyByOwner ==
    [][\A S \in StoreIds :
           yaml'[S] # yaml[S] => verify_session(DB, last'.token).ret = S]_vars

\* C4: once delete_session(token) has returned, verify_session(token) returns
\* None in every later state.
C4_RevokedStaysInvalid ==
    \A token \in revoked : verify_session(DB, token).ret = None

\* delete_session has removed the row of an issued token, and the token is
\* presented again while another session is live.
C4_Witness ==
    /\ last.op = "verify_session"
    /\ last.token \in revoked \cap removed \cap IssuedTokens
    /\ \E r \in sessions : r.expires_at > CURRENT_TIMESTAMP

\* C5: delete_session on a token that was never issued, was already revoked
\* or whose session has expired (row possibly still present) raises nothing,
\* removes no session row and appends no audit entry.
C5_RevokeDeadIsNoop ==
    [][(last'.op = "delete_session" /\ verify_session(DB, last'.token).ret = None) =>
           /\ last'.raised = ""
           /\ sessions' = sessions
           /\ audit_log' = audit_log]_vars

\* C6: after the logout handler completes for a request carrying a live
\* bearer token, that token's session row is gone and verify_session on the
\* token returns None.
C6_LogoutEndsSession ==
    (last.op = "logout" /\ last.raised = "") =>
        /\ session_rows(DB, last.token) = {}
        /\ verify_session(DB, last.token).ret = None

AnyPassword == Passwords \cup Passphrases

\* C7: verify_store_password(id, q) returns true exactly when store id has a
\* credential row and normalize_password(q) equals the normalized plaintext of
\* the most recent committed create_store_auth(id, ...).
C7_AcceptsExactlyCurrentSecret ==
    \A id \in StoreIds, q \in AnyPassword :
        verify_store_password(DB, id, q).ok
            = (hasAuth(DB, id) /\ secret[id] = {normalize_password(q)})

\* C8: verify_store_password returns false, and raises nothing, both when the
\* store has no credential row and when it has one and the secret is wrong.
C8_UnknownAndWrongAlike ==
    \A id \in StoreIds, q \in AnyPassword :
        (~hasAuth(DB, id) \/ secret[id] # {normalize_password(q)}) =>
            LET out == verify_store_password(DB, id, q)
            IN  out.raised = "" /\ out.ok = FALSE

LoginAttempt(store_id, success) ==
    [id |-> Len(audit_log) + 1, store_id |-> store_id, action |-> "login_attempt",
     timestamp |-> CURRENT_TIMESTAMP,
     details |-> IF success THEN "{\"success\": true}" ELSE "{\"success\": false}"]

IsCredentialEntry(e) == e.action \in {"store_created", "password_updated"}

CredentialLog(store_id) ==
    LET Mine(e) == e.store_id = store_id /\ IsCredentialEntry(e)
    IN  SelectSeq(audit_log, Mine)

C10_Rows ==
    \A s \in StoreIds :
        LET rows == store_auth_rows(DB, s)
            log == CredentialLog(s)
        IN  /\ Cardinality(rows) <= 1
            /\ \A r \in rows : r.updated_at >= r.created_at
            /\ rows # {} => Len(log) >= 1
            /\ \A k \in 1..Len(log) :
                   log[k].action = IF k = 1 THEN "store_created" ELSE "password_updated"

C10_Step ==
    (last'.op = "create_store_auth" /\ last'.raised = "") =>
        LET s == last'.store
            old == store_auth_rows(DB, s)
            new == store_auth_rows(DBnext, s)
            entry(action) ==
                [id |-> Len(audit_log) + 1, store_id |-> s, action |-> action,
                 timestamp |-> CURRENT_TIMESTAMP, details |-> ""]
        IN  /\ store_auth' \ new = store_auth \ old
            /\ \E n \in new :
                   /\ new = {n}
                   /\ {n.password_hash} = {hashpw(p) : p \in secret'[s]}
                   /\ n.updated_at = CURRENT_TIMESTAMP
                   /\ IF old = {}
                      THEN /\ n.created_at = CURRENT_TIMESTAMP
                           /\ audit_log' = Append(audit_log, entry("store_created"))
                      ELSE /\ \A r \in old : n.created_at = r.created_at
                           /\ audit_log' = Append(audit_log, entry("password_updated"))

\* C10: create_store_auth inserts the row and logs store_created when the
\* store has none, and otherwise replaces the hash, refreshes updated_at,
\* keeps created_at and logs password_updated; so there is at most one row
\* per store_id, updated_at is never before created_at, and the credential
\* entries of a store are one store_created followed by password_updated.
C10_Upsert == []C10_Rows /\ [][C10_Step]_vars

\* A password was rotated in a later second than the store was created in.
C10_Witness ==
    /\ last.op = "create_store_auth"
    /\ last.raised = ""
    /\ \E r \in store_auth : r.store_id = last.store /\ r.updated_at > r.created_at

\* C11: after create_store_auth(id, p1) and then create_store_auth(id, p2),
\* with p2 a different secret (its normalized form is not that of p1),
\* verify_store_password(id, p1) returns false.
C11_RotationInvalidatesOld ==
    [][(/\ last'.op = "create_store_auth"
        /\ last'.raised = ""
        /\ secret'[last'.store] # secret[last'.store]) =>
           \A p1 \in secret[last'.store] :
               ~verify_store_password(DBnext, last'.store, p1).ok]_vars

C12_Rows ==
    \A r1, r2 \in sessions : r1.token = r2.token => r1 = r2

C12_Step ==
    (last'.op = "create_session" /\ last'.raised = "") =>
        /\ last'.ret # None
        /\ last'.ret \notin IssuedTokens
        /\ \E r \in sessions' : r.token = last'.ret /\ r.store_id = last'.store

IsPrefix(a, b) == Len(a) <= Len(b) /\ SubSeq(b, 1, Len(a)) = a

\* C13: no operation of the library changes or removes an audit entry: every
\* step leaves the audit log a prefix of what it becomes.
C13_AppendOnly == [][IsPrefix(audit_log, audit_log')]_vars

\* A second entry for one store and action has been appended, and the log
\* has been read since.
C13_Witness ==
    /\ last.op = "get_audit_log"
    /\ \E i, j \in 1..Len(audit_log) :
           /\ i < j
           /\ audit_log[i].store_id = audit_log[j].store_id
           /\ audit_log[i].action = audit_log[j].action

\* C14: audit entry ids strictly increase in insertion order, and the
\* timestamps of one sequential caller, whose clock never goes back, are
\* non-decreasing in id order.
C14_IdsAndTimestampsOrdered ==
    \A i, j \in 1..Len(audit_log) :
        i < j => /\ audit_log[i].id < audit_log[j].id
                 /\ audit_log[i].timestamp <= audit_log[j].timestamp

\* Entries of two stores, written in different seconds.
C14_Witness ==
    \E i, j \in 1..Len(audit_log) :
        /\ audit_log[i].store_id # audit_log[j].store_id
        /\ audit_log[i].timestamp < audit_log[j].timestamp

\* The entries of the audit log a query for store_id is about.
Matching(store_id) ==
    {audit_log[k] : k \in {n \in 1..Len(audit_log) :
                              store_id = None \/ audit_log[n].store_id = store_id}}

Returned(rows) == {rows[i] : i \in DOMAIN rows}

\* What C15 says of a list, but for its length.
C15_Ordered(rows, store_id) ==
    /\ Returned(rows) \subseteq Matching(store_id)
    /\ Cardinality(Returned(rows)) = Len(rows)
    /\ \A i, j \in DOMAIN rows : i < j => rows[i].timestamp >= rows[j].timestamp
    /\ \A e \in Returned(rows), f \in Matching(store_id) \ Returned(rows) :
           e.timestamp >= f.timestamp

\* C15: get_audit_log(store_id, limit) returns at most limit entries, all of
\* store_id when a store_id is given, in non-increasing timestamp order, and
\* every returned entry is at least as recent as every matching entry that
\* was not returned.
C15_AtMostLimitMostRecentFirst ==
    last.op = "get_audit_log" =>
        \A rows \in get_audit_log(DB, last.store, last.limit) :
            /\ Len(rows) <= last.limit
            /\ C15_Ordered(rows, last.store)

\* The same for the limits that are not negative, where a list of exactly
\* min(limit, matching entries) entries is returned.
C15_NonNegativeLimit ==
    (last.op = "get_audit_log" /\ last.limit >= 0) =>
        \A rows \in get_audit_log(DB, last.store, last.limit) :
            /\ Len(rows) = Min(last.limit, Cardinality(Matching(last.store)))
            /\ C15_Ordered(rows, last.store)

\* C16: list_stores() returns one record for each store that has a
\* credential row, in ascending order of store_id (a text), whatever order
\* the stores were created in, each with the created_at and updated_at of
\* its row.
C16_ListOrderedAndAccurate ==
    last.op = "list_stores" =>
        /\ Len(last.rows) = Cardinality({r.store_id : r \in store_auth})
        /\ \A r \in store_auth : \E i \in DOMAIN last.rows :
               /\ last.rows[i].store_id = r.store_id
               /\ last.rows[i].created_at = r.created_at
               /\ last.rows[i].updated_at = r.updated_at
        /\ \A i, j \in DOMAIN last.rows :
               i < j => TextLess(StoreIdText(last.rows[i].store_id),
                                 StoreIdText(last.rows[j].store_id))

\* Both stores are listed, "10" before "2", store "10" being the one created
\* later and store "2" having had its password changed since.
C16_Witness ==
    /\ last.op = "list_stores"
    /\ Len(last.rows) = 2
    /\ last.rows[1].created_at > last.rows[2].created_at
    /\ last.rows[2].updated_at > last.rows[2].created_at

\* C17: hasAuth(store_id) returns true exactly when a credential row for
\* store_id exists, and leaves the credentials, the sessions and the audit
\* log as they were.
C17_HasAuthPure ==
    [][last'.op = "hasAuth" =>
           /\ last'.raised = ""
           /\ last'.ok = (\E r \in store_auth : r.store_id = last'.store)
           /\ store_auth' = store_auth
           /\ sessions' = sessions
           /\ audit_log' = audit_log]_vars

\* hasAuth answered false for a store while the other store has credentials
\* and a session.
C17_Witness ==
    /\ last.op = "hasAuth"
    /\ ~last.ok
    /\ store_auth # {}
    /\ sessions # {}
    /\ audit_log # <<>>

\* Which letter a character is, whatever its case: "A" and "a" are the letter
\* a, "\u00c9" and "\u00e9" the letter e with acute, "\u0130" the letter i,
\* the Kelvin sign the letter k; "-", "1" and "\u0307" are no letters (0).
LetterOf(c) ==
    IF c \in 65..90 THEN c + 32
    ELSE IF c \in 97..122 THEN c
    ELSE IF c \in {201, 233} THEN 233
    ELSE IF c = 304 THEN 105
    ELSE IF c = 8490 THEN 107
    ELSE 0

\* The letters of a string in order, whatever their case.
Letters(password) ==
    LET IsLetter(c) == c # 0
    IN  [k \in 1..password.pad |-> 97]
        \o SelectSeq([k \in 1..Len(password.text) |-> LetterOf(password.text[k])],
                     IsLetter)

\* The strings that normalize_password is compared on: one character shorter.
ShortStrings == {x \in Strings : Len(x.text) < MaxLen}

\* C18: the output of normalize_password has only the characters a to z, is
\* no longer than the input, is left as it is by normalize_password, and is
\* also the output for every input that differs from this one only in the
\* case of its letters and in characters that are no letters.
C18_NormalizeCanonical ==
    last.op = "normalize_password" =>
        /\ \A k \in 1..Len(last.text.text) : last.text.text[k] \in 97..122
        /\ Length(last.text) <= Length(last.password)
        /\ normalize_password(last.text) = last.text
        /\ \A other \in ShortStrings :
               Letters(other) = Letters(last.password) =>
                   normalize_password(other) = last.text

\* "\u0130-A", whose lowercase has four characters, was normalized to "ia".
C18_Witness ==
    /\ last.op = "normalize_password"
    /\ last.password = Text(<<304, 45, 65>>)
    /\ last.text = Text(<<105, 97>>)

C19_Step ==
    /\ last'.op = "verify_session" =>
           /\ sessions' = sessions
           /\ store_auth' = store_auth
           /\ audit_log' = audit_log
    /\ \A r \in sessions, n \in sessions' : n.token = r.token => n = r
    /\ (last'.op = "create_session" /\ last'.raised = "") =>
           \E n \in sessions' \ sessions, hours \in TtlHours :
               /\ n.token = last'.ret
               /\ n.expires_at = datetime_now + timedelta(hours)

\* C19: verify_session leaves every session row, every credential row and
\* the audit log as they were; a session's expires_at is set by
\* create_session to its datetime.now() plus the ttl, and no later step
\* changes the row.
C19_NoSlidingExpiry == [][C19_Step]_vars

\* A token was accepted in a later second than the one it was issued in.
C19_Witness ==
    /\ last.op = "verify_session"
    /\ last.ret # None
    /\ \E r \in sessions : r.token = last.token /\ r.created_at < CURRENT_TIMESTAMP

\* verify_session returns None for the token: no row of the token has an
\* expires_at later than the database's current time.
Dead(token) ==
    ~\E r \in sessions : r.token = token /\ r.expires_at > CURRENT_TIMESTAMP

\* C20: once verify_session returns None for an issued token, it returns
\* None for that token after every later step.
C20_DeadStaysDead ==
    [][\A token \in IssuedTokens : Dead(token) => Dead(token)']_vars

\* A session has expired with its row still in the table, and another
\* session has been issued since.
C20_Witness ==
    /\ last.op = "create_session"
    /\ last.raised = ""
    /\ \E r \in sessions : r.token # last.ret /\ Dead(r.token)

C21_Step ==
    /\ (last'.op = "create_session" /\ last'.raised = "") =>
           /\ sessions \ sessions' = {r \in sessions : r.expires_at < CURRENT_TIMESTAMP}
           /\ \A r \in sessions \ sessions' : verify_session(DB, r.token).ret = None
    /\ last'.op = "delete_session" =>
           sessions \ sessions' \subseteq {r \in sessions : r.token = last'.token}
    /\ last'.op \notin {"create_session", "delete_session"} =>
           sessions \subseteq sessions'

\* C21: the sweep inside create_session removes exactly the session rows, of
\* every store, whose expires_at is earlier than the database's current time
\* at that call, none of which verify_session would accept; no step other
\* than this sweep and delete_session removes a session row.
C21_SweepExactlyExpired == [][C21_Step]_vars

\* A create_session for one store has swept an expired session of the other.
C21_Witness ==
    /\ last.op = "create_session"
    /\ last.raised = ""
    /\ \E i \in issuedBy :
           /\ i.token \in removed \ revoked
           /\ i.store_id # last.store

C22_Step ==
    /\ (last'.op = "create_session" /\ last'.raised = "") =>
           \A r \in sessions :
               r.expires_at > CURRENT_TIMESTAMP =>
                   /\ r \in sessions'
                   /\ r.expires_at > CURRENT_TIMESTAMP'
    /\ last'.op = "delete_session" =>
           sessions' = {r \in sessions : r.token # last'.token}

\* C22: a store may hold several live sessions: create_session leaves every
\* session that has not expired (expires_at > CURRENT_TIMESTAMP, what
\* verify_session accepts) in the table and unexpired, and
\* delete_session(token) removes the row of that token and no other row.
C22_ConcurrentSessions == [][C22_Step]_vars

\* A session of a store was deleted while another session of the same store
\* is live.
C22_Witness ==
    /\ last.op = "delete_session"
    /\ last.ok
    /\ \E i \in issuedBy, r \in sessions :
           /\ i.token = last.token
           /\ r.store_id = i.store_id
           /\ r.expires_at > CURRENT_TIMESTAMP

\* C23: every session row has expires_at later than created_at.
C23_ExpiresAfterCreated ==
    \A r \in sessions : r.expires_at > r.created_at

\* C24: the store_id of every session row is the store_id of a credential row.
C24_SessionsHaveCredential ==
    \A r \in sessions : \E a \in store_auth : a.store_id = r.store_id

\* C25: no step of the library deletes a credential row: a store for which
\* hasAuth is true has it true after every step.
C25_HasAuthStable ==
    [][\A id \in StoreIds : hasAuth(DB, id) => hasAuth(DBnext, id)]_vars

\* A wrong password has been refused for a store that has credentials, and
\* the credentials of both stores are in place.
C25_Witness ==
    /\ last.op = "verify_store_password"
    /\ ~last.ok
    /\ \A id \in StoreIds : hasAuth(DB, id)

C26_Step ==
    /\ last'.op \in {"create_store_auth", "verify_store_password"} =>
           sessions' = sessions
    /\ last'.op \in {"create_session", "verify_session", "delete_session"} =>
           store_auth' = store_auth

\* C26: create_store_auth and verify_store_password leave the session rows as
\* they are (so a session issued before a rotation is valid after it), and
\* create_session, verify_session and delete_session leave the credential
\* rows as they are.
C26_OwnRelationOnly == [][C26_Step]_vars

\* A password has been rotated for a store that holds a session.
C26_Witness ==
    /\ last.op = "create_store_auth"
    /\ last.raised = ""
    /\ audit_log[Len(audit_log)].action = "password_updated"
    /\ \E r \in sessions : r.store_id = last.store

C27_Appended(store_id, action) ==
    audit_log' = Append(audit_log,
        [id |-> Len(audit_log) + 1, store_id |-> store_id, action |-> action,
         timestamp |-> CURRENT_TIMESTAMP, details |-> NULL])

C27_Step ==
    /\ (last'.op = "create_store_auth" /\ last'.raised = "") =>
           C27_Appended(last'.store,
                        IF \E r \in store_auth : r.store_id = last'.store
                        THEN "password_updated" ELSE "store_created")
    /\ (last'.op = "create_session" /\ last'.raised = "") =>
           C27_Appended(last'.store, "session_created")
    /\ (last'.op = "delete_session" /\ sessions' # sessions) =>
           \E r \in sessions \ sessions' : C27_Appended(r.store_id, "logout")
    /\ (store_auth' # store_auth \/ sessions' # sessions) =>
           Len(audit_log') = Len(audit_log) + 1

\* C27: every successful create_store_auth, every successful create_session
\* and every delete_session that removes a row appends, in the step that
\* changes the row, exactly one audit entry with the store_id concerned and
\* the action store_created or password_updated, session_created, logout; no
\* step changes a credential or session row without appending an entry.
C27_MutationsAudited == [][C27_Step]_vars

\* A session has been deleted and the last audit entry is its logout.
C27_Witness ==
    /\ last.op = "delete_session"
    /\ last.ok
    /\ audit_log # <<>>
    /\ audit_log[Len(audit_log)].action = "logout"
    /\ \E i \in issuedBy :
           i.token = last.token /\ i.store_id = audit_log[Len(audit_log)].store_id

C29_Step ==
    (last'.op = "create_store_auth" /\ xkcdpass # "ok") =>
        /\ last'.raised \in {"RuntimeError", "FileNotFoundError"}
        /\ DBnext = DB
        /\ secret' = secret

\* C29: a create_store_auth(store_id, None) made while xkcdpass cannot be
\* run raises an error and leaves the credential rows, the sessions and the
\* audit log as they were: no password from another generator is stored.
C29_NoWordSourceNoChange == [][C29_Step]_vars

\* create_store_auth(store_id, None) has failed for want of xkcdpass, on a
\* store that has credentials and on a log that has entries.
C29_Witness ==
    /\ last.op = "create_store_auth"
    /\ last.raised = "RuntimeError"
    /\ xkcdpass = "fails"
    /\ hasAuth(DB, last.store)
    /\ audit_log # <<>>

C28_Step ==
    /\ \A p \in Procs :
           (callers[p].pc # "raised" /\ callers'[p].pc = "raised") =>
               /\ DBnext = DB
               /\ callers'[p].raised \in {"IntegrityError", "OperationalError"}
    /\ DBnext # DB =>
           \E p \in Procs :
               /\ callers[p].pc = "commit"
               /\ callers'[p].pc = "idle"
               /\ DBnext = callers[p].tx
    /\ \A p \in Procs :
           callers[p].pc = "raised" => callers'[p].pc \in {"raised", "idle"}

\* C28: a create_store_auth or create_session in which a statement or the
\* commit fails leaves the credentials, the sessions and the audit log as
\* they were, whatever the call had written (the sweep, the row); the
\* database changes only by the commit of a whole call; and a call that has
\* raised executes nothing more.
C28_AtomicCalls == [][C28_Step]_vars

\* A create_session has raised after its sweep had run, and the expired
\* session the sweep deleted is in the table.
C28_Witness ==
    \E p \in Procs :
        /\ callers[p].pc = "raised"
        /\ callers[p].op = "create_session"
        /\ callers[p].stmts >= 1
        /\ expired_rows(DB) # {}

StoreCreated(store_id) ==
    {k \in 1..Len(audit_log) :
        audit_log[k].store_id = store_id /\ audit_log[k].action = "store_created"}

C30_Rows ==
    \A s \in StoreIds :
        /\ Cardinality(store_auth_rows(DB, s)) <= 1
        /\ Cardinality(StoreCreated(s)) = Cardinality(store_auth_rows(DB, s))

C30_Step ==
    \A p \in Procs :
        (callers[p].op = "create_store_auth" /\ callers'[p] # callers[p]) =>
            IF callers[p].pc = "commit" /\ callers'[p].pc = "idle"
            THEN /\ store_auth_rows(DBnext, callers[p].store_id) # {}
                 /\ audit_log' = Append(audit_log,
                        [id |-> Len(audit_log) + 1, store_id |-> callers[p].store_id,
                         action |-> IF hasAuth(DB, callers[p].store_id)
                                    THEN "password_updated" ELSE "store_created",
                         timestamp |-> CURRENT_TIMESTAMP, details |-> NULL])
            ELSE DBnext = DB

\* C30: however the statements of two concurrent create_store_auth calls
\* interleave, a store has at most one credential row and as many
\* store_created entries as rows; a call that commits after the other has
\* created the row records password_updated, and a call that raises
\* (IntegrityError, OperationalError) leaves the database as it was.
C30_OneRowOneCreation == []C30_Rows /\ [][C30_Step]_vars

\* A call that found no row has lost the race: its INSERT raised
\* IntegrityError, and the store has the one row and the one store_created
\* entry of the other call.
C30_Witness ==
    \E p \in Procs :
        /\ callers[p].pc = "raised"
        /\ callers[p].op = "create_store_auth"
        /\ callers[p].raised = "IntegrityError"
        /\ hasAuth(DB, callers[p].store_id)
        /\ Cardinality(StoreCreated(callers[p].store_id)) = 1

EntriesOf(store_id, action) ==
    {k \in 1..Len(audit_log) :
        audit_log[k].store_id = store_id /\ audit_log[k].action = action}

C31_Rows ==
    \A s \in StoreIds :
        Cardinality(EntriesOf(s, "logout")) <= Cardinality(EntriesOf(s, "session_created"))

C31_Step ==
    (/\ Len(audit_log') = Len(audit_log) + 1
     /\ audit_log'[Len(audit_log')].action = "logout") =>
        \E r \in sessions \ sessions' :
            r.store_id = audit_log'[Len(audit_log')].store_id

\* C31: however concurrent delete_session calls interleave, a step that
\* appends a logout entry removes a session row of the entry's store, and a
\* store never has more logout entries than sessions issued to it.
C31_OneLogoutPerSession == []C31_Rows /\ [][C31_Step]_vars

C32_Closed ==
    \A p \in Procs :
        callers[p].pc \in {"idle", "raised"} =>
            /\ ~callers[p].open
            /\ p \notin Writers

C32_Terminates ==
    \A p \in Procs : (p \in InCall) ~> (p \notin InCall)

\* C32: every call under way ends, by its commit, its return or an
\* exception, however the statements of the two processes interleave; and a
\* process outside a call has no connection open and holds no write lock.
C32_CallsEndAndClose == []C32_Closed /\ C32_Terminates

\* One call is at its first writing statement while the other process holds
\* the write lock.
C32_Witness ==
    \E p \in Procs :
        /\ callers[p].pc \in {"sweep", "delete"}
        /\ Writers \ {p} # {}

\* C33: in every state, a login request issues a session only if hasAuth and
\* verify_store_password are both true for its store and password; the one
\* session row it adds expires 720 hours from now with remember_me and 24
\* hours from now without; and a request whose password is not verified
\* answers an error and adds no session row and no session_created entry.
C33_LoginAfterVerification ==
    \A store_id \in StoreIds, password \in Passwords \cup Passphrases,
       remember_me \in BOOLEAN :
        LET out == login_result(DB, store_id, password, remember_me)
            verified == verify_store_password(DB, store_id, password)
            allowed == hasAuth(DB, store_id) /\ verified.raised = "" /\ verified.ok
            new == out.db.sessions \ sessions
            created == {k \in 1..Len(out.db.audit_log) :
                           /\ k > Len(audit_log)
                           /\ out.db.audit_log[k].action = "session_created"}
        IN  /\ out.raised = "" =>
                /\ allowed
                /\ new = {[token |-> out.ret, store_id |-> store_id,
                           created_at |-> CURRENT_TIMESTAMP,
                           expires_at |-> datetime_now
                               + timedelta(IF remember_me THEN 720 ELSE 24)]}
            /\ ~allowed =>
                /\ out.raised # ""
                /\ new = {}
                /\ created = {}

\* A login with remember_me has issued a session of 720 hours, its accepted
\* attempt and its session_created being the last two audit entries.
C33_Witness ==
    /\ last.op = "login"
    /\ last.raised = ""
    /\ \E r \in sessions :
           r.token = last.ret /\ r.expires_at - r.created_at >= timedelta(720)
    /\ Len(audit_log) >= 2
    /\ audit_log[Len(audit_log)].action = "session_created"
    /\ audit_log[Len(audit_log) - 1].details = json_dumps_success(TRUE)

C34_Dependency ==
    \A token \in ClientTokens :
        LET auth == get_current_store(DB, token)
            store_id == verify_session(DB, token).ret
        IN  /\ auth.raised = "401" <=> store_id = None
            /\ store_id # None =>
                   /\ auth.raised = ""
                   /\ auth.ret = store_id
                   /\ \E r \in sessions :
                          /\ r.token = token
                          /\ r.store_id = store_id
                          /\ r.expires_at > CURRENT_TIMESTAMP

C34_Path ==
    last.op \in {"verify_token", "protected_endpoint"} =>
        LET store_id == verify_session(DB, last.token).ret
        IN  /\ last.raised = "401" <=> store_id = None
            /\ last.raised = "403" <=> store_id \notin {None, last.store}
            /\ last.raised = "" <=> store_id = last.store
            /\ last.raised \in {"", "401", "403"}

C35_NoSecretInLog ==
    \A k \in 1..Len(audit_log) :
        /\ audit_log[k].action \in {"store_created", "password_updated",
                                    "login_attempt", "session_created", "logout"}
        /\ audit_log[k].details \in
               {NULL, json_dumps_success(TRUE), json_dumps_success(FALSE)}
        /\ audit_log[k].details # NULL <=> audit_log[k].action = "login_attempt"

\* The log holds an accepted attempt, and an entry of another action after it.
C35_Witness ==
    \E j, k \in 1..Len(audit_log) :
        /\ j < k
        /\ audit_log[j].action = "login_attempt"
        /\ audit_log[j].details = json_dumps_success(TRUE)
        /\ audit_log[k].action \in {"session_created", "logout", "password_updated"}

C36_Step ==
    \A p \in Procs :
        callers'[p] # callers[p] =>
            /\ (callers[p].op = "cmd_create" /\ hasAuth(DB, callers[p].store_id)) =>
                   DBnext = DB
            /\ (callers[p].op = "cmd_update" /\ ~hasAuth(DB, callers[p].store_id)) =>
                   DBnext = DB

\* C36: no step of a create command changes the database while its store
\* has a credential row, and no step of an update command changes it while
\* its store has none, whatever other commands run between the steps.
C36_CreateNeverReplaces == [][C36_Step]_vars

=============================================================================
